---- MODULE Spec2Model ----
(***************************************************************************)
(* A model of PluginControl (src/src/lib/core/PluginControl.ts): the       *)
(* collapsed/expanded state machine, its event registry, its DOM listeners *)
(* and the corner-aware panel positioner.                                  *)
(*                                                                         *)
(* JavaScript objects have identity: the state object of the control and   *)
(* the snapshots handed to subscribers live in a small heap of references, *)
(* so that copying and aliasing are distinguishable.                       *)
(***************************************************************************)
EXTENDS Integers, Sequences, FiniteSets, TLC

VARIABLES
    ctl,    \* the fields of the PluginControl instance
    heap,   \* PluginState objects by reference, and the snapshot a subscriber kept
    dom,    \* the environment: DOM elements, registered DOM listeners, frame queue
    obs,    \* what the last operation did: events emitted, handler calls, recomputes
    client  \* the code that uses the control: the React component, the hook's state,
            \* a subscriber that watches the events, a call of a utility

vars == <<ctl, heap, dom, obs, client>>

----------------------------------------------------------------------------
(* Bounds of the model *)

\* cap on the closures of one kind registered on the document / window / map
MaxListeners == 2
\* cap on the requestAnimationFrame callbacks pending at one time
MaxRaf == 1
\* values a key of state.data may carry (0 stands for "key absent")
MaxDataVal == 2
\* references of the heap other than the live state object and a kept snapshot
SpareRefs == 1
\* the edges of a measured box lie at most this far from the viewport's origin
MaxCoord == 2
\* the width and the height of a measured box are at most this
MaxSize == 2
\* the arguments of clamp lie in -MaxClamp..MaxClamp
MaxClamp == 3

(* Program constants *)

DefaultPanelWidth == 300
panelGap == 5
ButtonSize == 29

Events == {"collapse", "expand", "statechange"}

Corners == {"top-left", "top-right", "bottom-left", "bottom-right"}

\* what the toggle container's parentElement is: nothing, an element without a
\* marker class, or the host's control stack of one corner
ParentKinds == Corners \cup {"absent", "unmarked"}

Sides == {"top", "bottom", "left", "right"}

(* Inputs *)

\* callback functions a subscriber may pass to on()/off(): "h1" and "h2" only record
\* the call, "keep" also stores the reference event.state it was handed
Handlers == {"h1", "h2", "keep"}
Keepers == {"keep"}

PanelWidths == {DefaultPanelWidth, 400}

\* DEFAULT_OPTIONS (title and className do not reach the state machine)
DEFAULT_OPTIONS == [collapsed |-> TRUE, position |-> "top-right", panelWidth |-> DefaultPanelWidth]

OptionKeys == {"collapsed", "position", "panelWidth"}

\* Partial<PluginControlOptions>: the keys given and their values
OptionsOf(collapseds, positions, panelWidths) ==
    UNION { [keys : {K},
             collapsed : IF "collapsed" \in K THEN collapseds ELSE {FALSE},
             position : IF "position" \in K THEN positions ELSE {"top-left"},
             panelWidth : IF "panelWidth" \in K THEN panelWidths ELSE {0}] :
            K \in SUBSET OptionKeys }

\* new PluginControl() without options
NoOptions == [keys |-> {}, collapsed |-> FALSE, position |-> "top-left", panelWidth |-> 0]

DataKeys == {"a", "b"}
DataObjs == [DataKeys -> 0..MaxDataVal]
EmptyData == [k \in DataKeys |-> 0]

StateKeys == {"collapsed", "panelWidth", "data"}

\* Partial<PluginState>: the keys present and their values (the value of an absent
\* key is never read)
PartialStates ==
    UNION { [keys : {K},
             collapsed : IF "collapsed" \in K THEN BOOLEAN ELSE {FALSE},
             panelWidth : IF "panelWidth" \in K THEN PanelWidths ELSE {0},
             data : IF "data" \in K THEN DataObjs ELSE {EmptyData}] : K \in SUBSET StateKeys }

\* usePluginState() without an argument
NoPartial == [keys |-> {}, collapsed |-> FALSE, panelWidth |-> 0, data |-> EmptyData]

\* partials of one key: a value of collapsed, the other panel width, or a data
\* object that is empty or has the key "a"
SinglePartials ==
    {p \in PartialStates :
        /\ Cardinality(p.keys) = 1
        /\ p.panelWidth \in {0, 400}
        /\ p.data \in {EmptyData, [k \in DataKeys |-> IF k = "a" THEN 1 ELSE 0]}}

\* the arguments usePluginState is first called with: any set of keys, with data that
\* is empty or has the key "a"
HookPartials ==
    {p \in PartialStates : p.data \in {EmptyData, [k \in DataKeys |-> IF k = "a" THEN 1 ELSE 0]}}

\* partials that carry no data
PlainPartials == {p \in PartialStates : "data" \notin p.keys}

\* a DOMRect
Rect(top, left, width, height) ==
    [top |-> top, left |-> left, width |-> width, height |-> height,
     bottom |-> top + height, right |-> left + width]

\* the geometry a recompute measures: the toggle button's and the map container's
\* bounding boxes. Two window sizes, the button docked near the container's corner.
WideLayout == [button |-> Rect(10, 761, ButtonSize, ButtonSize), map |-> Rect(0, 0, 800, 600)]
NarrowLayout == [button |-> Rect(60, 311, ButtonSize, ButtonSize), map |-> Rect(50, 20, 350, 400)]
Layouts == {WideLayout, NarrowLayout}

\* every box with bounded integer coordinates, and every pair of a toggle box and a
\* container box
Boxes ==
    {Rect(top, left, width, height) :
        top \in (0 - MaxCoord)..MaxCoord, left \in (0 - MaxCoord)..MaxCoord,
        width \in 1..MaxSize, height \in 1..MaxSize}
BoxLayouts == [button : Boxes, map : Boxes]

\* no measurement taken
NoLayout == [button |-> Rect(0, 0, 0, 0), map |-> Rect(0, 0, 0, 0)]

----------------------------------------------------------------------------
(* The heap of PluginState objects *)

NullRef == 0
LiveRef == 1
KeptRef == 2
Refs == 1..(2 + SpareRefs)

FreeObj == [collapsed |-> FALSE, panelWidth |-> 0, data |-> EmptyData]

\* the world the operations act on
World == [ctl |-> ctl, heap |-> heap, dom |-> dom, obs |-> obs, client |-> client]

\* the live PluginState of the control
Live(w) == w.heap.objs[w.ctl._state]

\* a reference not in use
Alloc(w) == CHOOSE r \in Refs : r # w.ctl._state /\ r # w.heap.held

\* renumber the references (live state first, kept snapshot second) and release
\* the objects nothing refers to
Compact(w) ==
    LET s == w.ctl._state
        h == w.heap.held
        h2 == IF h = NullRef THEN NullRef ELSE IF h = s THEN LiveRef ELSE KeptRef
        objs2 == [r \in Refs |->
                    IF r = LiveRef THEN w.heap.objs[s]
                    ELSE IF r = KeptRef /\ h2 = KeptRef THEN w.heap.objs[h]
                    ELSE FreeObj]
    IN  [w EXCEPT !.ctl._state = LiveRef, !.heap = [objs |-> objs2, held |-> h2]]

----------------------------------------------------------------------------
(* Set<handler>: insertion-ordered, without duplicates *)

SeqHas(q, x) == \E i \in 1..Len(q) : q[i] = x

\* a list that takes every add, also of an element it holds
ListAdd(q, x) == Append(q, x)

\* Set.prototype.add
SetAdd(q, x) == IF SeqHas(q, x) THEN q ELSE Append(q, x)

\* Set.prototype.delete
SetDelete(q, x) == SelectSeq(q, LAMBDA y : y # x)

\* Map.prototype.clear: no key is left
NoHandlers == [keys |-> {}, sets |-> [e \in Events |-> <<>>]]

----------------------------------------------------------------------------
(* PluginControl *)

\* PluginControlReact before it is mounted: no map prop, no collapsed prop, no
\* control in controlRef; on is the map its control was added to, stray counts the
\* controls it created that are on a map without being referred to any more
NoComponent ==
    [mounted |-> FALSE, map |-> "none", collapsed |-> [given |-> FALSE, value |-> FALSE],
     controlRef |-> FALSE, on |-> "none", stray |-> 0]

\* a subscriber that remembers the last 'expand' or 'collapse' it was called with,
\* and whether it was ever called with the same one twice running
NoWatch == [last |-> "none", repeated |-> FALSE]

\* usePluginState before a component uses it: initialState is the argument of the
\* latest render, changed whether a later render passed another one than the first,
\* first the state the hook started with
NoHook ==
    [used |-> FALSE, initialState |-> NoPartial, changed |-> FALSE,
     state |-> FreeObj, first |-> FreeObj]

\* a call of clamp: its arguments, whether it has returned, and what it returned
NoUtil == [used |-> FALSE, value |-> 0, min |-> 0, max |-> 0, result |-> 0]

\* no client code has run
NoClient ==
    [component |-> NoComponent, watch |-> NoWatch,
     hook |-> NoHook, util |-> NoUtil]

\* the instance the constructor leaves, from the collapsed and panelWidth of its
\* _options; _options keeps panelWidth (read again by _createPanel) and position
NewControl(collapsed, panelWidth) ==
    [ctl |-> [_options |-> [panelWidth |-> panelWidth, position |-> DEFAULT_OPTIONS.position],
              _state |-> LiveRef,
              _map |-> FALSE, _mapContainer |-> FALSE,
              _container |-> FALSE, _panel |-> FALSE,
              _eventHandlers |-> NoHandlers,
              _resizeHandler |-> FALSE, _mapResizeHandler |-> FALSE,
              _clickOutsideHandler |-> FALSE],
     heap |-> [objs |-> [r \in Refs |->
                           IF r = LiveRef
                           THEN [collapsed |-> collapsed, panelWidth |-> panelWidth,
                                 data |-> EmptyData]
                           ELSE FreeObj],
               held |-> NullRef],
     dom |-> [panelExpanded |-> FALSE, panelStyle |-> [s \in Sides |-> [set |-> FALSE, px |-> 0]],
              panelWidth |-> 0, parent |-> "absent",
              documentClick |-> 0, windowResize |-> 0, mapResize |-> 0,
              mapChildren |-> 0, stackChildren |-> 0, raf |-> 0],
     obs |-> [lastOp |-> "new", emitted |-> <<>>, calls |-> <<>>, posCalls |-> 0,
              measured |-> NoLayout, stale |-> FALSE,
              had |-> FALSE, error |-> FALSE],
     client |-> NoClient]

\* constructor(options): this._options = { ...DEFAULT_OPTIONS, ...options }
constructor(options) ==
    LET _options == [k \in OptionKeys |-> IF k \in options.keys THEN options[k]
                                          ELSE DEFAULT_OPTIONS[k]]
    IN  [NewControl(_options.collapsed, _options.panelWidth)
            EXCEPT !.ctl._options.position = _options.position]

\* getMap() and getContainer(): whether the field holds the map / the element
getMap(w) == w.ctl._map
getContainer(w) == w.ctl._container

\* getState() as it would be if it returned this._state itself
getStateAliased(w) == [w |-> w, ref |-> w.ctl._state]

\* getState(): { ...this._state }, a new object with the same top-level fields
getState(w) ==
    LET r == Alloc(w)
    IN  [w |-> [w EXCEPT !.heap.objs[r] = Live(w)], ref |-> r]

\* _emit() as it would be without the test for a missing key: handlers.forEach on
\* undefined raises a TypeError
emitUnguarded(w, event) ==
    LET w0 == [w EXCEPT !.obs.emitted = Append(@, event)]
    IN  IF event \notin w0.ctl._eventHandlers.keys THEN [w0 EXCEPT !.obs.error = TRUE]
        ELSE LET g == getState(w0)
                 handlers == g.w.ctl._eventHandlers.sets[event]
                 invoked == [i \in 1..Len(handlers) |->
                               [handler |-> handlers[i], type |-> event,
                                state |-> g.w.heap.objs[g.ref],
                                seen |-> [expanded |-> g.w.dom.panelExpanded,
                                          style |-> g.w.dom.panelStyle]]]
             IN  [g.w EXCEPT !.obs.calls = @ \o invoked,
                             !.heap.held = IF \E i \in 1..Len(handlers) : handlers[i] \in Keepers
                                           THEN g.ref ELSE @]

\* the handler "watch", called with an event of the given type
Watched(watch, type) == [last |-> type, repeated |-> watch.repeated \/ watch.last = type]

\* _emit(event): one eventData object is built and handed to every handler
\* registered for the event, in the Set's order; each call is recorded with the panel
\* (class and offsets) as the handler finds it
_emit(w, event) ==
    LET w0 == [w EXCEPT !.obs.emitted = Append(@, event)]
    IN  IF event \notin w0.ctl._eventHandlers.keys THEN w0
        ELSE LET g == getState(w0)
                 handlers == g.w.ctl._eventHandlers.sets[event]
                 eventData == [type |-> event, state |-> g.w.heap.objs[g.ref]]
                 invoked == [i \in 1..Len(handlers) |->
                               [handler |-> handlers[i], type |-> eventData.type,
                                state |-> eventData.state,
                                seen |-> [expanded |-> g.w.dom.panelExpanded,
                                          style |-> g.w.dom.panelStyle]]]
             IN  [g.w EXCEPT !.obs.calls = @ \o invoked,
                             !.heap.held = IF \E i \in 1..Len(handlers) : handlers[i] \in Keepers
                                           THEN g.ref ELSE @,
                             !.client.watch = IF SeqHas(handlers, "watch")
                                              THEN Watched(@, eventData.type) ELSE @]

\* _getControlPosition() as it would be if it returned the position option
positionFromOptions(w) == w.ctl._options.position

\* _getControlPosition(): the marker class of the container's parent
_getControlPosition(w) ==
    IF ~w.ctl._container \/ w.dom.parent = "absent" THEN "top-right"
    ELSE IF w.dom.parent = "top-left" THEN "top-left"
    ELSE IF w.dom.parent = "top-right" THEN "top-right"
    ELSE IF w.dom.parent = "bottom-left" THEN "bottom-left"
    ELSE IF w.dom.parent = "bottom-right" THEN "bottom-right"
    ELSE "top-right"

Unset == [set |-> FALSE, px |-> 0]
Px(n) == [set |-> TRUE, px |-> n]

\* the positioner's offsets as they would be without the toggle's height and the gap:
\* the panel anchored at the toggle's own top (or bottom) edge
panelOffsetsAtToggleEdge(buttonRect, mapRect, position) ==
    LET buttonTop == buttonRect.top - mapRect.top
        buttonBottom == mapRect.bottom - buttonRect.bottom
        buttonLeft == buttonRect.left - mapRect.left
        buttonRight == mapRect.right - buttonRect.right
        reset == [s \in Sides |-> Unset]
    IN  CASE position = "top-left" ->
               [reset EXCEPT !["top"] = Px(buttonTop), !["left"] = Px(buttonLeft)]
          [] position = "top-right" ->
               [reset EXCEPT !["top"] = Px(buttonTop), !["right"] = Px(buttonRight)]
          [] position = "bottom-left" ->
               [reset EXCEPT !["bottom"] = Px(buttonBottom), !["left"] = Px(buttonLeft)]
          [] position = "bottom-right" ->
               [reset EXCEPT !["bottom"] = Px(buttonBottom), !["right"] = Px(buttonRight)]

\* the style the positioner writes, from the measured boxes and the corner
PanelOffsets(buttonRect, mapRect, position) ==
    LET buttonTop == buttonRect.top - mapRect.top
        buttonBottom == mapRect.bottom - buttonRect.bottom
        buttonLeft == buttonRect.left - mapRect.left
        buttonRight == mapRect.right - buttonRect.right
        reset == [s \in Sides |-> Unset]
    IN  CASE position = "top-left" ->
               [reset EXCEPT !["top"] = Px(buttonTop + buttonRect.height + panelGap),
                             !["left"] = Px(buttonLeft)]
          [] position = "top-right" ->
               [reset EXCEPT !["top"] = Px(buttonTop + buttonRect.height + panelGap),
                             !["right"] = Px(buttonRight)]
          [] position = "bottom-left" ->
               [reset EXCEPT !["bottom"] = Px(buttonBottom + buttonRect.height + panelGap),
                             !["left"] = Px(buttonLeft)]
          [] position = "bottom-right" ->
               [reset EXCEPT !["bottom"] = Px(buttonBottom + buttonRect.height + panelGap),
                             !["right"] = Px(buttonRight)]

\* what a recompute leaves in the record of the operation: the boxes it measured,
\* and whether the panel carried an offset that the new corner does not use
Recomputed(w, before, layout) ==
    [w EXCEPT !.obs.posCalls = @ + 1,
              !.obs.measured = layout,
              !.obs.stale = \E s \in Sides : before[s].set /\ ~PanelOffsets(layout.button, layout.map,
                                                                         _getControlPosition(w))[s].set]

\* _updatePanelPosition() as it would be without the test for absent elements:
\* reading a property of undefined raises a TypeError
updatePanelPositionUnguarded(w, layout) ==
    IF ~w.ctl._container \/ ~w.ctl._panel \/ ~w.ctl._mapContainer
    THEN [w EXCEPT !.obs.error = TRUE]
    ELSE Recomputed([w EXCEPT !.dom.panelStyle =
                                  PanelOffsets(layout.button, layout.map, _getControlPosition(w))],
                    w.dom.panelStyle, layout)

\* _updatePanelPosition() as it would be without the reset of the four offsets: the
\* two offsets of the corner are written over what the panel carries
updatePanelPositionNoReset(w, layout) ==
    IF ~w.ctl._container \/ ~w.ctl._panel \/ ~w.ctl._mapContainer THEN w
    ELSE LET new == PanelOffsets(layout.button, layout.map, _getControlPosition(w))
         IN  Recomputed([w EXCEPT !.dom.panelStyle =
                                      [s \in Sides |-> IF new[s].set THEN new[s] ELSE @[s]]],
                        w.dom.panelStyle, layout)

\* _updatePanelPosition(): a no-op without container, panel or map container
_updatePanelPosition(w, layout) ==
    IF ~w.ctl._container \/ ~w.ctl._panel \/ ~w.ctl._mapContainer THEN w
    ELSE Recomputed([w EXCEPT !.dom.panelStyle =
                                  PanelOffsets(layout.button, layout.map, _getControlPosition(w))],
                    w.dom.panelStyle, layout)

\* { ...a, ...b } on PluginState objects
Spread(a, b) == [k \in StateKeys |-> IF k \in b.keys THEN b[k] ELSE a[k]]

\* setState() as it would be if it announced a change of collapsed like toggle()
setStateAnnouncing(w, newState) ==
    LET r == Alloc(w)
        w1 == [w EXCEPT !.heap.objs[r] = Spread(Live(w), newState), !.ctl._state = r]
        w2 == IF Live(w1).collapsed # Live(w).collapsed
              THEN _emit(w1, IF Live(w1).collapsed THEN "collapse" ELSE "expand")
              ELSE w1
    IN  _emit(w2, "statechange")

\* setState(newState): a new state object replaces the old one
setState(w, newState) ==
    LET r == Alloc(w)
        w1 == [w EXCEPT !.heap.objs[r] = Spread(Live(w), newState), !.ctl._state = r]
    IN  _emit(w1, "statechange")

\* toggle() as it would be if it emitted 'expand' before showing and positioning the
\* panel
toggleEmitFirst(w, layout) ==
    LET w1 == [w EXCEPT !.heap.objs[w.ctl._state].collapsed = ~@]
        w2 == IF w1.ctl._panel
              THEN IF Live(w1).collapsed
                   THEN _emit([w1 EXCEPT !.dom.panelExpanded = FALSE], "collapse")
                   ELSE LET e == _emit(w1, "expand")
                        IN  _updatePanelPosition([e EXCEPT !.dom.panelExpanded = TRUE], layout)
              ELSE w1
    IN  _emit(w2, "statechange")

\* toggle(): the state object is changed in place
toggle(w, layout) ==
    LET w1 == [w EXCEPT !.heap.objs[w.ctl._state].collapsed = ~@]
        w2 == IF w1.ctl._panel
              THEN IF Live(w1).collapsed
                   THEN _emit([w1 EXCEPT !.dom.panelExpanded = FALSE], "collapse")
                   ELSE _emit(_updatePanelPosition([w1 EXCEPT !.dom.panelExpanded = TRUE],
                                                   layout), "expand")
              ELSE w1
    IN  _emit(w2, "statechange")

\* expand() without its guard
expandUnguarded(w, layout) == toggle(w, layout)

\* expand()
expand(w, layout) == IF Live(w).collapsed THEN toggle(w, layout) ELSE w

\* collapse()
collapse(w, layout) == IF ~Live(w).collapsed THEN toggle(w, layout) ELSE w

\* on(event, handler)
on(w, event, handler) ==
    LET m == w.ctl._eventHandlers
        m1 == IF event \notin m.keys
              THEN [keys |-> m.keys \cup {event}, sets |-> [m.sets EXCEPT ![event] = <<>>]]
              ELSE m
    IN  [w EXCEPT !.ctl._eventHandlers = [m1 EXCEPT !.sets[event] = SetAdd(@, handler)]]

\* off() as it would be if it removed the handler from every event
offEverywhere(w, event, handler) ==
    [w EXCEPT !.ctl._eventHandlers.sets = [e \in Events |-> SetDelete(@[e], handler)]]

\* off(event, handler): this._eventHandlers.get(event)?.delete(handler)
off(w, event, handler) ==
    IF event \notin w.ctl._eventHandlers.keys THEN w
    ELSE [w EXCEPT !.ctl._eventHandlers.sets[event] = SetDelete(@, handler)]

----------------------------------------------------------------------------
(* Attach and detach *)

\* _createPanel(): a new panel element, without the 'expanded' class and without
\* offsets, as wide as options.panelWidth
_createPanel(w) ==
    [w EXCEPT !.ctl._panel = TRUE,
              !.dom.panelExpanded = FALSE,
              !.dom.panelStyle = [s \in Sides |-> Unset],
              !.dom.panelWidth = w.ctl._options.panelWidth]

\* _setupEventListeners(): three new closures, each stored in its field (whatever the
\* field held before) and registered on the document, the window and the map
_setupEventListeners(w) ==
    [w EXCEPT !.ctl._clickOutsideHandler = TRUE,
              !.dom.documentClick = @ + 1,
              !.ctl._resizeHandler = TRUE,
              !.dom.windowResize = @ + 1,
              !.ctl._mapResizeHandler = TRUE,
              !.dom.mapResize = IF w.ctl._map THEN @ + 1 ELSE @]

\* onAdd() as it would be if it recomputed the position of an Expanded panel at once
\* instead of requesting a frame
onAddEager(w, parent) ==
    LET w1 == [w EXCEPT !.ctl._map = TRUE, !.ctl._mapContainer = TRUE,
                        !.ctl._container = TRUE]
        w2 == _createPanel(w1)
        w3 == [w2 EXCEPT !.dom.mapChildren = @ + 1]
        w4 == _setupEventListeners(w3)
        w5 == IF ~Live(w4).collapsed
              THEN _updatePanelPosition([w4 EXCEPT !.dom.panelExpanded = TRUE], WideLayout)
              ELSE w4
    IN  [w5 EXCEPT !.dom.parent = parent,
                   !.dom.stackChildren = IF parent = "absent" THEN @ ELSE @ + 1]

\* onAdd(map), and the host placing the returned container: parent tells under which
\* element the host puts it ("absent": onAdd was called without a host placing it)
onAdd(w, parent) ==
    LET w1 == [w EXCEPT !.ctl._map = TRUE, !.ctl._mapContainer = TRUE,
                        !.ctl._container = TRUE]
        w2 == _createPanel(w1)
        w3 == [w2 EXCEPT !.dom.mapChildren = @ + 1]
        w4 == _setupEventListeners(w3)
        w5 == IF ~Live(w4).collapsed
              THEN [w4 EXCEPT !.dom.panelExpanded = TRUE, !.dom.raf = @ + 1]
              ELSE w4
    IN  [w5 EXCEPT !.dom.parent = parent,
                   !.dom.stackChildren = IF parent = "absent" THEN @ ELSE @ + 1]

\* onRemove() as it would be if it left the registry of handlers as it is
onRemoveKeepingHandlers(w) ==
    LET w1 == IF w.ctl._resizeHandler
              THEN [w EXCEPT !.dom.windowResize = @ - 1, !.ctl._resizeHandler = FALSE]
              ELSE w
        w2 == IF w1.ctl._mapResizeHandler /\ w1.ctl._map
              THEN [w1 EXCEPT !.dom.mapResize = @ - 1, !.ctl._mapResizeHandler = FALSE]
              ELSE w1
        w3 == IF w2.ctl._clickOutsideHandler
              THEN [w2 EXCEPT !.dom.documentClick = @ - 1, !.ctl._clickOutsideHandler = FALSE]
              ELSE w2
        w4 == IF w3.ctl._panel THEN [w3 EXCEPT !.dom.mapChildren = @ - 1] ELSE w3
        w5 == IF w4.ctl._container /\ w4.dom.parent # "absent"
              THEN [w4 EXCEPT !.dom.stackChildren = @ - 1]
              ELSE w4
    IN  [w5 EXCEPT !.ctl._map = FALSE, !.ctl._mapContainer = FALSE,
                   !.ctl._container = FALSE, !.ctl._panel = FALSE,
                   !.dom.panelExpanded = FALSE,
                   !.dom.panelStyle = [s \in Sides |-> Unset],
                   !.dom.panelWidth = 0,
                   !.dom.parent = "absent"]

\* onRemove()
onRemove(w) ==
    LET w1 == IF w.ctl._resizeHandler
              THEN [w EXCEPT !.dom.windowResize = @ - 1, !.ctl._resizeHandler = FALSE]
              ELSE w
        w2 == IF w1.ctl._mapResizeHandler /\ w1.ctl._map
              THEN [w1 EXCEPT !.dom.mapResize = @ - 1, !.ctl._mapResizeHandler = FALSE]
              ELSE w1
        w3 == IF w2.ctl._clickOutsideHandler
              THEN [w2 EXCEPT !.dom.documentClick = @ - 1, !.ctl._clickOutsideHandler = FALSE]
              ELSE w2
        w4 == IF w3.ctl._panel THEN [w3 EXCEPT !.dom.mapChildren = @ - 1] ELSE w3
        w5 == IF w4.ctl._container /\ w4.dom.parent # "absent"
              THEN [w4 EXCEPT !.dom.stackChildren = @ - 1]
              ELSE w4
    IN  [w5 EXCEPT !.ctl._map = FALSE, !.ctl._mapContainer = FALSE,
                   !.ctl._container = FALSE, !.ctl._panel = FALSE,
                   !.ctl._eventHandlers = NoHandlers,
                   !.dom.panelExpanded = FALSE,
                   !.dom.panelStyle = [s \in Sides |-> Unset],
                   !.dom.panelWidth = 0,
                   !.dom.parent = "absent"]

\* the click-outside closure as it would be if it did not look at the click's target
clickOutsideIgnoringTarget(w, target, layout) ==
    IF w.ctl._container /\ w.ctl._panel THEN collapse(w, layout) ELSE w

\* the click-outside closure: target is where the click landed relative to the
\* control's current elements
_clickOutsideHandler(w, target, layout) ==
    IF w.ctl._container /\ w.ctl._panel /\ target # "container" /\ target # "panel"
    THEN collapse(w, layout)
    ELSE w

\* the resize closures as they would be if a resize closed the panel
resizeHandlerCollapsing(w, layout) == collapse(w, layout)

\* the window-resize and map-resize closures
_resizeHandler(w, layout) ==
    IF ~Live(w).collapsed THEN _updatePanelPosition(w, layout) ELSE w

\* the callback onAdd hands to requestAnimationFrame
rafCallback(w, layout) == _updatePanelPosition(w, layout)

\* an event dispatched to n registered closures of the same kind
RECURSIVE DispatchClick(_, _, _, _)
DispatchClick(w, n, target, layout) ==
    IF n = 0 THEN w
    ELSE DispatchClick(_clickOutsideHandler(w, target, layout), n - 1, target, layout)

RECURSIVE DispatchResize(_, _, _)
DispatchResize(w, n, layout) ==
    IF n = 0 THEN w ELSE DispatchResize(_resizeHandler(w, layout), n - 1, layout)

----------------------------------------------------------------------------
(* PluginControlReact *)

\* the maps the component may be given, and the values of its collapsed prop
Maps == {"m1", "m2"}
CollapsedProps == [given : BOOLEAN, value : BOOLEAN] \ {[given |-> FALSE, value |-> TRUE]}

\* the props spread into options: only collapsed reaches the state machine
ComponentOptions(w) ==
    [NoOptions EXCEPT !.keys = IF w.client.component.collapsed.given THEN {"collapsed"} ELSE {},
                      !.collapsed = w.client.component.collapsed.value]

\* map.addControl(control, position): the host calls onAdd and puts the container in
\* the corner's stack
mapAddControl(w, map, position) ==
    [onAdd(w, position) EXCEPT !.client.component.on = map]

\* map.hasControl(control), for the control the component's effect created
mapHasControl(w, map) == w.ctl._map /\ w.client.component.on = map

\* map.removeControl(control): the host calls onRemove
mapRemoveControl(w) ==
    [onRemove(w) EXCEPT !.client.component.on = "none"]

\* the body of the first effect, run with the current map prop: a new control takes
\* the place of the one the component had (which, were it still on a map, would stay
\* there unreferenced)
mountEffect(w, onStateChange) ==
    IF w.client.component.map = "none" THEN w
    ELSE LET control == constructor(ComponentOptions(w))
             w1 == [w EXCEPT !.ctl = control.ctl,
                             !.heap = control.heap,
                             !.client.component.stray = IF w.ctl._map THEN @ + 1 ELSE @,
                             !.client.component.controlRef = TRUE]
             w2 == IF onStateChange THEN on(w1, "statechange", "onStateChange") ELSE w1
         IN  mapAddControl(w2, w2.client.component.map, DEFAULT_OPTIONS.position)

\* the cleanup as it would be if it only dropped the reference
mountCleanupForgetting(w) ==
    IF w.client.component.on = "none" THEN w
    ELSE [w EXCEPT !.client.component.controlRef = FALSE]

\* the cleanup the first effect returned (none when it ran without a map)
mountCleanup(w) ==
    IF w.client.component.on = "none" THEN w
    ELSE LET w1 == IF mapHasControl(w, w.client.component.on) THEN mapRemoveControl(w) ELSE w
         IN  [w1 EXCEPT !.client.component.controlRef = FALSE]

\* the second effect as it would be with its two branches exchanged
syncEffectSwapped(w, layout) ==
    IF ~w.client.component.controlRef THEN w
    ELSE LET g == getState(w)
             currentState == g.w.heap.objs[g.ref]
             options == w.client.component.collapsed
         IN  IF options.given /\ options.value # currentState.collapsed
             THEN IF options.value THEN expand(g.w, layout) ELSE collapse(g.w, layout)
             ELSE g.w

\* the body of the second effect, run when options.collapsed has changed
syncEffect(w, layout) ==
    IF ~w.client.component.controlRef THEN w
    ELSE LET g == getState(w)
             currentState == g.w.heap.objs[g.ref]
             options == w.client.component.collapsed
         IN  IF options.given /\ options.value # currentState.collapsed
             THEN IF options.value THEN collapse(g.w, layout) ELSE expand(g.w, layout)
             ELSE g.w

(* usePluginState *)

DEFAULT_STATE == [collapsed |-> TRUE, panelWidth |-> 300, data |-> EmptyData]

\* { ...a, ...b } on data objects: a key of b (a value other than 0) replaces a's
SpreadData(a, b) == [k \in DataKeys |-> IF b[k] # 0 THEN b[k] ELSE a[k]]

\* usePluginState(initialState) in the first render: useState takes its argument
usePluginState(initialState) ==
    LET s == Spread(DEFAULT_STATE, initialState)
    IN  [used |-> TRUE, initialState |-> initialState, changed |-> FALSE,
         state |-> s, first |-> s]

\* usePluginState(initialState) in a later render: useState ignores its argument,
\* and reset is made again for the new initialState
usePluginStateAgain(h, initialState) ==
    [h EXCEPT !.initialState = initialState,
              !.changed = @ \/ initialState # h.initialState]

setCollapsed(h, collapsed) == [h EXCEPT !.state.collapsed = collapsed]

setPanelWidth(h, panelWidth) == [h EXCEPT !.state.panelWidth = panelWidth]

setData(h, data) == [h EXCEPT !.state.data = SpreadData(@, data)]

\* reset() as it would be if it went back to DEFAULT_STATE alone
resetToDefaults(h) == [h EXCEPT !.state = DEFAULT_STATE]

reset(h) == [h EXCEPT !.state = Spread(DEFAULT_STATE, h.initialState)]

\* the toggle the hook returns
hookToggle(h) == [h EXCEPT !.state.collapsed = ~@]

\* the setState the hook returns, called with a whole state
hookSetState(h, newState) == [h EXCEPT !.state = newState]

(* helpers *)

ClampValues == (0 - MaxClamp)..MaxClamp

\* clamp() as it would be if it returned its value as it is
clampUnbounded(value, min, max) == {value}

\* clamp(value, min, max): the values it may return, value bounded to [min, max];
\* when min > max the result is unspecified
clamp(value, min, max) ==
    IF min > max THEN ClampValues
    ELSE {IF value < min THEN min ELSE IF value > max THEN max ELSE value}

----------------------------------------------------------------------------
(* Operations as steps *)----------------------------------------------------------------------------
(* Operations as steps *)

\* an operation starts with an empty record of what it did
Begin(name) ==
    [World EXCEPT !.obs = [lastOp |-> name, emitted |-> <<>>, calls |-> <<>>,
                           posCalls |-> 0, measured |-> NoLayout, stale |-> FALSE,
                           had |-> FALSE, error |-> FALSE]]

\* the operation's result becomes the next state
Becomes(w) ==
    LET c == Compact(w)
    IN  /\ ctl' = c.ctl
        /\ heap' = c.heap
        /\ dom' = c.dom
        /\ obs' = c.obs
        /\ client' = c.client

Attached == ctl._container /\ ctl._panel

\* the control's PluginState
State == heap.objs[ctl._state]

Collapsed == State.collapsed

OnAdd(parent) ==
    /\ dom.documentClick < MaxListeners
    /\ heap.objs[ctl._state].collapsed \/ dom.raf < MaxRaf
    /\ Becomes(onAdd(Begin("onAdd"), parent))

\* onRemove(); obs.had notes whether the control was attached with a handler
\* registered before the call
OnRemove ==
    /\ Becomes([onRemove(Begin("onRemove")) EXCEPT
                    !.obs.had = Attached /\ ctl._eventHandlers.keys # {}])

\* map.addControl(control) by a host that adds a control only while it is not on the
\* map
HostAdd(parent) ==
    /\ ~ctl._map
    /\ OnAdd(parent)

Toggle(layout) ==
    /\ Becomes(toggle(Begin("toggle"), layout))

Expand(layout) ==
    /\ Becomes(expand(Begin("expand"), layout))

Collapse(layout) ==
    /\ Becomes(collapse(Begin("collapse"), layout))

SetState(newState) ==
    /\ Becomes(setState(Begin("setState"), newState))

\* whether handler is registered for event
Registered(event, handler) == SeqHas(ctl._eventHandlers.sets[event], handler)

\* on() and off(); obs.had notes whether the pair was registered before the call
On(event, handler) ==
    /\ Becomes([on(Begin("on"), event, handler) EXCEPT !.obs.had = Registered(event, handler)])

Off(event, handler) ==
    /\ Becomes([off(Begin("off"), event, handler) EXCEPT !.obs.had = Registered(event, handler)])

\* the host moves the toggle container under another parent (between its corner
\* stacks, or into an element without a marker class)
Reparent(parent) ==
    /\ ctl._container /\ dom.parent # "absent" /\ parent # dom.parent
    /\ Becomes([Begin("reparent") EXCEPT !.dom.parent = parent])

\* the accessors: the caller drops what it gets
GetState ==
    /\ Becomes(getState(Begin("getState")).w)

GetMap ==
    /\ getMap(World) \in BOOLEAN
    /\ Becomes(Begin("getMap"))

GetContainer ==
    /\ getContainer(World) \in BOOLEAN
    /\ Becomes(Begin("getContainer"))

\* the component is mounted: both effects run, in the order they are declared
Mount(map, collapsed, onStateChange, layout) ==
    /\ ~client.component.mounted
    /\ dom.raf < MaxRaf
    /\ LET w == [Begin("mount") EXCEPT !.client.component.mounted = TRUE,
                                       !.client.component.map = map,
                                       !.client.component.collapsed = collapsed]
       IN  Becomes(syncEffect(mountEffect(w, onStateChange), layout))

\* the map prop changes: the cleanup of the first effect, then the effect again
\* (onStateChange is read anew: given or not)
ChangeMap(map, onStateChange) ==
    /\ client.component.mounted /\ map # client.component.map
    /\ dom.raf < MaxRaf
    /\ LET w == mountCleanup(Begin("changeMap"))
       IN  Becomes(mountEffect([w EXCEPT !.client.component.map = map], onStateChange))

\* the collapsed prop changes: the second effect runs
ChangeCollapsed(collapsed, layout) ==
    /\ client.component.mounted /\ collapsed # client.component.collapsed
    /\ LET w == Begin("changeCollapsed")
       IN  Becomes(syncEffect([w EXCEPT !.client.component.collapsed = collapsed], layout))

\* the component is unmounted: the cleanup runs
Unmount ==
    /\ client.component.mounted
    /\ LET w == mountCleanup(Begin("unmount"))
       IN  Becomes([w EXCEPT !.client.component.mounted = FALSE,
                             !.client.component.map = "none",
                             !.client.component.collapsed = NoComponent.collapsed])

\* a component calls usePluginState for the first time
UseHook(initialState) ==
    /\ ~client.hook.used
    /\ Becomes([Begin("usePluginState") EXCEPT !.client.hook = usePluginState(initialState)])

\* the component renders again, with another initialState
Render(initialState) ==
    /\ client.hook.used
    /\ initialState # client.hook.initialState
    /\ Becomes([Begin("render") EXCEPT !.client.hook = usePluginStateAgain(@, initialState)])

HookSetCollapsed(collapsed) ==
    /\ client.hook.used
    /\ Becomes([Begin("hook.setCollapsed") EXCEPT !.client.hook = setCollapsed(@, collapsed)])

HookSetPanelWidth(panelWidth) ==
    /\ client.hook.used
    /\ Becomes([Begin("hook.setPanelWidth") EXCEPT !.client.hook = setPanelWidth(@, panelWidth)])

HookSetData(data) ==
    /\ client.hook.used
    /\ Becomes([Begin("hook.setData") EXCEPT !.client.hook = setData(@, data)])

HookToggle ==
    /\ client.hook.used
    /\ Becomes([Begin("hook.toggle") EXCEPT !.client.hook = hookToggle(@)])

HookSetState(newState) ==
    /\ client.hook.used
    /\ Becomes([Begin("hook.setState") EXCEPT !.client.hook = hookSetState(@, newState)])

HookReset ==
    /\ client.hook.used
    /\ Becomes([Begin("hook.reset") EXCEPT !.client.hook = reset(@),
                                            !.obs.had = client.hook.state # reset(client.hook).state])

\* clamp is called with the arguments drawn and returns
Clamp ==
    /\ ~client.util.used
    /\ \E result \in clamp(client.util.value, client.util.min, client.util.max) :
           Becomes([Begin("clamp") EXCEPT !.client.util.used = TRUE,
                                          !.client.util.result = result])

\* a subscriber registers the handler "watch" for 'expand' and 'collapse' on an
\* attached control
Watch ==
    /\ Attached
    /\ ~Registered("expand", "watch") /\ ~Registered("collapse", "watch")
    /\ Becomes(on(on(Begin("watch"), "expand", "watch"), "collapse", "watch"))

\* the holder of a snapshot assigns to one of its top-level fields
AssignKept(newState) ==
    /\ heap.held # NullRef
    /\ Cardinality(newState.keys) = 1
    /\ LET w == Begin("assignKept")
       IN  Becomes([w EXCEPT !.heap.objs[heap.held] = Spread(@, newState)])

\* a click on the toggle button: its listener, then the document's listeners
ToggleButtonClick(layout) ==
    /\ ctl._container
    /\ Becomes(DispatchClick(toggle(Begin("toggleButton"), layout),
                             dom.documentClick, "container", layout))

\* a click on the panel's close button
CloseButtonClick(layout) ==
    /\ ctl._panel
    /\ Becomes(DispatchClick(collapse(Begin("closeButton"), layout),
                             dom.documentClick, "panel", layout))

\* a click elsewhere: outside the control, or on the container or the panel
DocumentClick(target, layout) ==
    /\ target # "outside" => Attached
    /\ Becomes(DispatchClick(Begin("documentClick"), dom.documentClick, target, layout))

WindowResize(layout) ==
    /\ Becomes(DispatchResize(Begin("windowResize"), dom.windowResize, layout))

MapResize(layout) ==
    /\ Becomes(DispatchResize(Begin("mapResize"), dom.mapResize, layout))

\* the next frame runs one pending requestAnimationFrame callback
AnimationFrame(layout) ==
    /\ dom.raf > 0
    /\ LET w == Begin("animationFrame")
       IN  Becomes(rafCallback([w EXCEPT !.dom.raf = @ - 1], layout))

----------------------------------------------------------------------------
(* Specifications *)

\* the control as constructed from one of the given option records
InitFrom(optionSet) ==
    \E options \in optionSet :
        LET w == constructor(options)
        IN  ctl = w.ctl /\ heap = w.heap /\ dom = w.dom /\ obs = w.obs /\ client = w.client

\* the control as constructed with the given options
InitWith(collapseds, panelWidths) ==
    \E collapsed \in collapseds, panelWidth \in panelWidths :
        LET w == NewControl(collapsed, panelWidth)
        IN  ctl = w.ctl /\ heap = w.heap /\ dom = w.dom /\ obs = w.obs /\ client = w.client

\* onAdd and onRemove in any order
Lifecycle(parents) ==
    \/ \E parent \in parents : OnAdd(parent)
    \/ OnRemove

\* the host adds the control and removes it, in turn
HostLifecycle(parents) ==
    \/ \E parent \in parents : HostAdd(parent)
    \/ OnRemove

\* the public operations that change the state
Transitions(layouts, partials) ==
    \/ \E layout \in layouts : Toggle(layout)
    \/ \E layout \in layouts : Expand(layout)
    \/ \E layout \in layouts : Collapse(layout)
    \/ \E newState \in partials : SetState(newState)

\* subscribers register and unregister
Registry(handlers) ==
    \/ \E event \in Events, handler \in handlers : On(event, handler)
    \/ \E event \in Events, handler \in handlers : Off(event, handler)

\* one subscriber's handler on some of the events
Subscriptions(events, handler) ==
    \/ \E event \in events : On(event, handler)
    \/ \E event \in events : Off(event, handler)

\* the host moves the container
Moves(parents) ==
    \E parent \in parents : Reparent(parent)

\* the next frame, whatever the boxes measure then
Frames(layouts) ==
    /\ dom.raf > 0
    /\ \E layout \in layouts : AnimationFrame(layout)

\* a caller reads the control
Accessors ==
    \/ GetState
    \/ GetMap
    \/ GetContainer

\* React mounts the component, changes its props and unmounts it
Component(maps, layouts) ==
    \/ \E map \in maps, collapsed \in CollapsedProps, onStateChange \in BOOLEAN, layout \in layouts :
           Mount(map, collapsed, onStateChange, layout)
    \/ \E map \in maps, onStateChange \in BOOLEAN : ChangeMap(map, onStateChange)
    \/ \E collapsed \in CollapsedProps, layout \in layouts : ChangeCollapsed(collapsed, layout)
    \/ Unmount

\* a component uses usePluginState, renders with the given arguments and calls what
\* the hook returned
Hook(initialStates, laterStates) ==
    \/ \E initialState \in initialStates : UseHook(initialState)
    \/ \E initialState \in laterStates : Render(initialState)
    \/ \E collapsed \in BOOLEAN : HookSetCollapsed(collapsed)
    \/ \E panelWidth \in PanelWidths : HookSetPanelWidth(panelWidth)
    \/ \E data \in DataObjs : HookSetData(data)
    \/ HookToggle
    \/ \E newState \in [collapsed : BOOLEAN, panelWidth : PanelWidths, data : DataObjs] :
           HookSetState(newState)
    \/ HookReset

\* the user clicks
Clicks(layouts) ==
    \/ \E layout \in layouts : ToggleButtonClick(layout)
    \/ \E layout \in layouts : CloseButtonClick(layout)
    \/ \E target \in {"outside", "container", "panel"}, layout \in layouts :
           DocumentClick(target, layout)

\* the window or the map is resized
Resizes(layouts) ==
    \/ \E layout \in layouts : WindowResize(layout)
    \/ \E layout \in layouts : MapResize(layout)

\* the holder of a snapshot assigns to it
Snapshots(partials) ==
    \E newState \in partials : AssignKept(newState)

\* The control in its host: attach and detach under every kind of parent, the
\* operations, the clicks, the resizes and the deferred recompute, with no subscriber.
Init == InitWith(BOOLEAN, PanelWidths)

Next ==
    \/ Lifecycle(ParentKinds)
    \/ Transitions(Layouts, PlainPartials)
    \/ Clicks(Layouts)
    \/ Resizes(Layouts)
    \/ \E layout \in Layouts : AnimationFrame(layout)

Spec == Init /\ [][Next]_vars

\* The event registry: two subscribers' handlers on the three events, around the
\* operations that emit.
InitEvents == InitWith(BOOLEAN, {DefaultPanelWidth})

NextEvents ==
    \/ HostLifecycle({"top-right"})
    \/ Transitions({WideLayout}, PlainPartials)
    \/ Registry({"h1", "h2"})
    \/ AnimationFrame(WideLayout)

SpecEvents == InitEvents /\ [][NextEvents]_vars

\* The state's data: setState with every partial state.
InitData == InitWith(BOOLEAN, {DefaultPanelWidth})

NextData ==
    \/ HostLifecycle({"top-right"})
    \/ Transitions({WideLayout}, PartialStates)
    \/ AnimationFrame(WideLayout)

SpecData == InitData /\ [][NextData]_vars

\* Snapshots: a handler that keeps the state it was handed (the object getState()
\* returned to _emit) and assigns to it.
InitSnapshots == InitWith(BOOLEAN, {DefaultPanelWidth})

NextSnapshots ==
    \/ HostLifecycle({"top-right"})
    \/ Transitions({WideLayout}, PlainPartials)
    \/ Registry({"keep"})
    \/ Snapshots(PlainPartials)
    \/ AnimationFrame(WideLayout)

SpecSnapshots == InitSnapshots /\ [][NextSnapshots]_vars

\* The positioner: the control in every corner and moved between corners, built with
\* or without a position option, toggled and resized under two layouts, with one
\* subscriber to 'expand'.
InitPosition == InitFrom(OptionsOf(BOOLEAN, Corners, {DefaultPanelWidth}))

NextPosition ==
    \/ HostLifecycle(ParentKinds)
    \/ Moves(ParentKinds \ {"absent"})
    \/ \E layout \in Layouts : Toggle(layout)
    \/ Subscriptions({"expand"}, "h1")
    \/ Resizes(Layouts)
    \/ \E layout \in Layouts : AnimationFrame(layout)

SpecPosition == InitPosition /\ [][NextPosition]_vars

\* The positioner as a function of what it measures: an Expanded control just
\* attached in one of the four corners, and the frame its onAdd requested firing with
\* every pair of boxes.
InitOffsets ==
    \E parent \in Corners :
        LET w == Compact(onAdd([constructor([NoOptions EXCEPT !.keys = {"collapsed"}])
                                   EXCEPT !.obs.lastOp = "onAdd"], parent))
        IN  ctl = w.ctl /\ heap = w.heap /\ dom = w.dom /\ obs = w.obs /\ client = w.client

NextOffsets == Frames(BoxLayouts)

SpecOffsets == InitOffsets /\ [][NextOffsets]_vars

\* Every operation on one control: attach and detach in any order, the transitions
\* with partials of each field, one subscriber, the accessors, clicks, resizes and
\* the deferred recompute.
InitFrame == InitWith(BOOLEAN, {DefaultPanelWidth})

NextFrame ==
    \/ Lifecycle({"top-right"})
    \/ Transitions({WideLayout}, SinglePartials)
    \/ Subscriptions({"statechange"}, "h1")
    \/ Accessors
    \/ Clicks({WideLayout})
    \/ Resizes({WideLayout})
    \/ AnimationFrame(WideLayout)

SpecFrame == InitFrame /\ [][NextFrame]_vars

\* The React component: mounted with a map or without one, its map and collapsed
\* props changed, unmounted and mounted again, while the user clicks the toggle
\* button and the page is clicked and resized.
InitReact == InitWith({TRUE}, {DefaultPanelWidth})

NextReact ==
    \/ Component(Maps \cup {"none"}, {WideLayout})
    \/ Clicks({WideLayout})
    \/ Resizes({WideLayout})
    \/ AnimationFrame(WideLayout)

SpecReact == InitReact /\ [][NextReact]_vars

\* usePluginState: used with any initialState, rendered again with or without
\* another one, its setters, toggle, setState and reset called in any order.
InitHook == InitWith({TRUE}, {DefaultPanelWidth})

NextHook == Hook(HookPartials, {NoPartial} \cup SinglePartials)

SpecHook == InitHook /\ [][NextHook]_vars

\* clamp, called once with any three arguments of ClampValues.
InitClamp ==
    \E value \in ClampValues, min \in ClampValues, max \in ClampValues :
        LET w == NewControl(TRUE, DefaultPanelWidth)
        IN  /\ ctl = w.ctl /\ heap = w.heap /\ dom = w.dom /\ obs = w.obs
            /\ client = [w.client EXCEPT !.util = [NoUtil EXCEPT !.value = value, !.min = min,
                                                                 !.max = max]]

NextClamp == Clamp

SpecClamp == InitClamp /\ [][NextClamp]_vars

\* A control that is attached once and stays attached, with a subscriber that
\* watches 'expand' and 'collapse' from some moment on, under the operations and the
\* clicks.
InitAlternation == InitWith(BOOLEAN, {DefaultPanelWidth})

NextAlternation ==
    \/ HostAdd("top-right")
    \/ Watch
    \/ Transitions({WideLayout}, PlainPartials)
    \/ Clicks({WideLayout})
    \/ AnimationFrame(WideLayout)

SpecAlternation == InitAlternation /\ [][NextAlternation]_vars

----------------------------------------------------------------------------
(* Properties *)

\* the number of positions of q that satisfy Test
Count(q, Test(_)) == Cardinality({i \in 1..Len(q) : Test(q[i])})

\* how many times event was emitted, and how many times handler was called with it
Emissions(o, event) == Count(o.emitted, LAMBDA e : e = event)
Invocations(o, event, handler) ==
    Count(o.calls, LAMBDA c : c.type = event /\ c.handler = handler)

\* C1: whenever the control is attached and no operation is in progress, the panel
\* carries the 'expanded' class exactly when state.collapsed is false.
C1_PanelMirrorsCollapsed ==
    Attached => (dom.panelExpanded <=> ~Collapsed)

\* C2: a toggle() that ends Expanded has emitted exactly 'expand' then 'statechange',
\* a toggle() that ends Collapsed exactly 'collapse' then 'statechange'.
C2_ToggleEmitsPair ==
    obs.lastOp = "toggle" =>
        obs.emitted = IF Collapsed THEN <<"collapse", "statechange">>
                      ELSE <<"expand", "statechange">>

\* what a call that does nothing leaves behind, and the step toggle() takes
C3_NothingDone ==
    /\ ctl' = ctl /\ heap' = heap /\ dom' = dom
    /\ obs'.emitted = <<>> /\ obs'.calls = <<>> /\ obs'.posCalls = 0 /\ ~obs'.error

C3_AsToggle(name) ==
    \E layout \in Layouts :
        LET w == Compact(toggle(Begin(name), layout))
        IN  ctl' = w.ctl /\ heap' = w.heap /\ dom' = w.dom /\ obs' = w.obs

\* C3: expand() on an Expanded control and collapse() on a Collapsed one change
\* nothing (state, registry, panel class and offsets, listeners) and emit nothing; in
\* the opposite state the step is the step toggle() takes.
C3_ExpandCollapseGuarded ==
    [][/\ obs'.lastOp = "expand" =>
              IF Collapsed THEN C3_AsToggle("expand") /\ ~Collapsed' ELSE C3_NothingDone
       /\ obs'.lastOp = "collapse" =>
              IF Collapsed THEN C3_NothingDone ELSE C3_AsToggle("collapse") /\ Collapsed'
      ]_vars

\* an expand() has just found the attached control Expanded, with a subscriber to
\* 'expand' registered
C3_Witness ==
    /\ obs.lastOp = "expand" /\ obs.emitted = <<>>
    /\ Attached /\ ~Collapsed /\ dom.panelExpanded
    /\ Registered("expand", "h1")

\* C4: every setState() emits 'statechange' exactly once and nothing else, calls only
\* the 'statechange' handlers, and leaves the panel (class, offsets) as it was,
\* without a position recompute.
C4_SetStateOnlyStatechange ==
    [][obs'.lastOp = "setState" =>
          /\ obs'.emitted = <<"statechange">>
          /\ \A i \in 1..Len(obs'.calls) : obs'.calls[i].type = "statechange"
          /\ obs'.posCalls = 0
          /\ dom' = dom
      ]_vars

\* a setState() has changed collapsed on an attached control (the panel still shows
\* the other state) and its 'statechange' handler ran
C4_Witness ==
    /\ obs.lastOp = "setState" /\ Attached
    /\ ~Collapsed /\ ~dom.panelExpanded
    /\ Len(obs.calls) = 1 /\ Registered("expand", "h2")

\* new is old with partial merged in, data one level deep
C5_Merged(old, partial, new) ==
    /\ new.collapsed = IF "collapsed" \in partial.keys THEN partial.collapsed ELSE old.collapsed
    /\ new.panelWidth = IF "panelWidth" \in partial.keys THEN partial.panelWidth
                        ELSE old.panelWidth
    /\ new.data = IF "data" \in partial.keys
                  THEN [k \in DataKeys |-> IF partial.data[k] # 0 THEN partial.data[k]
                                           ELSE old.data[k]]
                  ELSE old.data

\* C5: setState(partial) gives each top-level field present in partial the given
\* value, keeps each absent one, and merges data one level deep: a key of state.data
\* that partial.data does not mention is retained.
C5_SetStateMerges ==
    [][\A partial \in PartialStates : SetState(partial) => C5_Merged(State, partial, State')]_vars

\* C6: on() of a pair already registered changes nothing, no handler is ever called
\* more often with an event than the event was emitted, and after off(E, h) the
\* handler h is not registered for E.
C6_RegistrationIdempotent ==
    [][/\ obs'.emitted = <<>> => obs'.calls = <<>>
       /\ obs'.emitted # <<>> =>
              \A event \in Events, handler \in Handlers :
                  Invocations(obs', event, handler) <= Emissions(obs', event)
       /\ obs'.lastOp = "off" =>
              \A event \in Events, handler \in Handlers :
                  Off(event, handler) => ~Registered(event, handler)'
       /\ obs'.lastOp = "on" /\ obs'.had => ctl' = ctl
      ]_vars

\* an on() has just named a pair that was registered, and h1 is registered once for
\* 'expand' and once for 'statechange'
C6_Witness ==
    /\ obs.lastOp = "on" /\ obs.had
    /\ ctl._eventHandlers.sets["expand"] = <<"h1">>
    /\ ctl._eventHandlers.sets["statechange"] = <<"h1">>

\* the step changes the state and the panel as the same call does on a control
\* with no subscriber
C7_Unsubscribed(name, w) ==
    /\ obs'.lastOp = name
    /\ Live(Compact(w)) = State'
    /\ w.dom = dom'

C7_SameWithoutSubscribers ==
    LET quiet(name) == [Begin(name) EXCEPT !.ctl._eventHandlers = NoHandlers]
    IN  obs'.emitted # <<>> =>
            \/ \E layout \in Layouts :
                   \/ C7_Unsubscribed("toggle", toggle(quiet("toggle"), layout))
                   \/ C7_Unsubscribed("expand", expand(quiet("expand"), layout))
                   \/ C7_Unsubscribed("collapse", collapse(quiet("collapse"), layout))
            \/ \E partial \in PartialStates :
                   C7_Unsubscribed("setState", setState(quiet("setState"), partial))

\* C7: an operation calls each handler registered for an event once per emission of
\* that event and calls no handler with an event it is not registered for, raises no
\* error, and changes the state and the panel as it does with no subscriber at all.
C7_EmitCallsRegistered ==
    [][/\ obs'.emitted = <<>> => obs'.calls = <<>>
       /\ obs'.emitted # <<>> =>
              \A event \in Events, handler \in Handlers :
                  Invocations(obs', event, handler) =
                      IF Registered(event, handler) THEN Emissions(obs', event) ELSE 0
       /\ ~obs'.error
       /\ C7_SameWithoutSubscribers
      ]_vars

\* a toggle() into Expanded called h1, registered for 'expand', and h2, registered
\* for 'statechange' only, once each; 'collapse' has no handler
C7_Witness ==
    /\ obs.lastOp = "toggle" /\ Attached /\ ~Collapsed
    /\ ctl._eventHandlers.sets["expand"] = <<"h1">>
    /\ ctl._eventHandlers.sets["statechange"] = <<"h2">>
    /\ "collapse" \notin ctl._eventHandlers.keys
    /\ Len(obs.calls) = 2
    /\ obs.calls[1].handler = "h1" /\ obs.calls[1].type = "expand"
    /\ obs.calls[2].handler = "h2" /\ obs.calls[2].type = "statechange"

\* C8: off(E, h) for a handler not registered for E raises no error, emits nothing
\* and leaves the registry, the state and the panel as they were.
C8_OffUnregisteredNoOp ==
    [][obs'.lastOp = "off" =>
          \A event \in Events, handler \in Handlers :
              Off(event, handler) /\ ~Registered(event, handler) =>
                  /\ ctl' = ctl /\ heap' = heap /\ dom' = dom
                  /\ obs'.emitted = <<>> /\ obs'.calls = <<>> /\ ~obs'.error
      ]_vars

\* an off() has just named a pair that was not registered, while h1 is registered
\* for 'expand', h2 for 'statechange' and nothing for 'collapse'
C8_Witness ==
    /\ obs.lastOp = "off" /\ ~obs.had
    /\ ctl._eventHandlers.sets["expand"] = <<"h1">>
    /\ ctl._eventHandlers.sets["statechange"] = <<"h2">>
    /\ "collapse" \notin ctl._eventHandlers.keys

\* the operation called a handler that keeps the state it is handed
C9_KeeperCalled(o) == \E i \in 1..Len(o.calls) : o.calls[i].handler \in Keepers

\* C9: a handler is called with the event it is registered for and a state equal to
\* the control's; assigning to a top-level field of a kept snapshot leaves the
\* control's state as it was; and an operation that hands the keeper no new snapshot
\* leaves the kept one as it was.
C9_SnapshotIsolated ==
    [][/\ \A i \in 1..Len(obs'.calls) :
              /\ Registered(obs'.calls[i].type, obs'.calls[i].handler)
              /\ Emissions(obs', obs'.calls[i].type) > 0
              /\ obs'.calls[i].state = State'
       /\ C9_KeeperCalled(obs') => heap'.held # NullRef /\ heap'.objs[heap'.held] = State'
       /\ obs'.lastOp = "assignKept" => State' = State /\ ctl' = ctl
       /\ (heap.held # NullRef /\ ~C9_KeeperCalled(obs') /\ obs'.lastOp # "assignKept") =>
              heap'.held # NullRef /\ heap'.objs[heap'.held] = heap.objs[heap.held]
      ]_vars

\* the keeper holds the Expanded snapshot it got with 'expand' while a later
\* toggle(), which did not call it, has made the control Collapsed
C9_Witness ==
    /\ obs.lastOp = "toggle" /\ Attached /\ Collapsed
    /\ obs.emitted = <<"collapse", "statechange">> /\ obs.calls = <<>>
    /\ ctl._eventHandlers.sets["expand"] = <<"keep">>
    /\ heap.held # NullRef /\ ~heap.objs[heap.held].collapsed

\* C10: after onRemove returns, none of the control's listeners remains registered
\* on the document, the window or the map.
C10_NoListenerAfterRemove ==
    obs.lastOp = "onRemove" =>
        dom.documentClick = 0 /\ dom.windowResize = 0 /\ dom.mapResize = 0

\* the control holds no element, no map and no listener closure
C11_Detached ==
    /\ ~ctl._map /\ ~ctl._mapContainer /\ ~ctl._container /\ ~ctl._panel
    /\ ~ctl._resizeHandler /\ ~ctl._mapResizeHandler /\ ~ctl._clickOutsideHandler

\* an onRemove() on a detached control raises no error and changes neither the state
\* nor anything in the document
C11_SecondDetachNoOp ==
    [][(obs'.lastOp = "onRemove" /\ C11_Detached) =>
          /\ ~obs'.error
          /\ heap' = heap
          /\ dom' = dom
          /\ C11_Detached'
      ]_vars

\* C11: an onRemove() on a control that is detached (a second onRemove in a row, or
\* one on a control never attached) raises no error, leaves the state unchanged and
\* leaves the control detached: no element reference, and no listener registered on
\* the document, the window or the map.
C11_DetachIdempotent ==
    [][(obs'.lastOp = "onRemove" /\ C11_Detached) =>
          /\ ~obs'.error
          /\ heap' = heap
          /\ dom' = dom
          /\ C11_Detached'
          /\ dom'.documentClick = 0 /\ dom'.windowResize = 0 /\ dom'.mapResize = 0
      ]_vars

\* nothing of the control is left in the host
C12_Released ==
    /\ ~getMap(World) /\ ~getContainer(World)
    /\ dom.mapChildren = 0 /\ dom.stackChildren = 0

\* C12: after onRemove, getMap() and getContainer() return undefined, no panel of the
\* control is a child of the map container and no container of the control is in the
\* host's control stack; this stays so until the next onAdd.
C12_ReleasedAfterRemove ==
    [][/\ obs'.lastOp = "onRemove" => C12_Released'
       /\ (C12_Released /\ obs'.lastOp # "onAdd") => C12_Released'
      ]_vars

\* C13: toggle(), expand() and collapse() on a control that is not attached raise no
\* error, leave the state unchanged and emit no event.
C13_DetachedNoOp ==
    [][(obs'.lastOp \in {"toggle", "expand", "collapse"} /\ ~getMap(World)) =>
          /\ ~obs'.error
          /\ State' = State
          /\ obs'.emitted = <<>>
      ]_vars

\* the container, the panel or the map container is absent
C14_ElementAbsent == ~ctl._container \/ ~ctl._panel \/ ~ctl._mapContainer

\* C14: a deferred recompute that fires, or a resize that is delivered, while the
\* container, the panel or the map container is absent raises no error, recomputes
\* nothing and changes no offset, no state and no field of the control.
C14_RecomputeWithoutElements ==
    [][(obs'.lastOp \in {"animationFrame", "windowResize", "mapResize"} /\ C14_ElementAbsent) =>
          /\ ~obs'.error
          /\ obs'.posCalls = 0
          /\ heap' = heap
          /\ ctl' = ctl
          /\ dom' = [dom EXCEPT !.raf = IF obs'.lastOp = "animationFrame" THEN @ - 1 ELSE @]
      ]_vars

\* the frame requested by the onAdd of an Expanded control has fired after onRemove:
\* the control is detached, still Expanded, and no frame is pending
C14_Witness ==
    /\ obs.lastOp = "animationFrame" /\ C11_Detached
    /\ ~Collapsed /\ dom.raf = 0
    /\ \A s \in Sides : ~dom.panelStyle[s].set

\* the state a new control starts in: options.collapsed, and Collapsed when the
\* options do not say
C15_InitialState ==
    \A options \in OptionsOf(BOOLEAN, Corners, PanelWidths) :
        Live(constructor(options)).collapsed =
            IF "collapsed" \in options.keys THEN options.collapsed ELSE TRUE

\* C15: a new control is Collapsed unless its options say otherwise; onAdd leaves the
\* state as it is, shows the new panel expanded exactly when the state is Expanded,
\* requests exactly one frame in that case and none otherwise, and recomputes no
\* position itself (the new panel has no offset when onAdd returns).
C15_AttachStartsFromFlag ==
    [][obs'.lastOp = "onAdd" =>
          /\ C15_InitialState
          /\ State' = State
          /\ dom'.panelExpanded <=> ~Collapsed
          /\ dom'.raf = dom.raf + (IF Collapsed THEN 0 ELSE 1)
          /\ obs'.posCalls = 0
          /\ \A s \in Sides : ~dom'.panelStyle[s].set
      ]_vars

\* onAdd has just attached an Expanded control: the panel is shown, one frame is
\* pending and no offset is set yet
C15_Witness ==
    /\ obs.lastOp = "onAdd" /\ Attached /\ ~Collapsed
    /\ dom.panelExpanded /\ dom.raf = 1 /\ obs.posCalls = 0
    /\ \A s \in Sides : ~dom.panelStyle[s].set

\* C16: a toggle() of an attached control into Expanded recomputes the position
\* exactly once, and every 'expand' handler is called with the panel already marked
\* expanded and already carrying the offsets of the current corner; a toggle() into
\* Collapsed recomputes nothing and leaves the offsets as they were.
C16_ExpandAfterRecompute ==
    [][(obs'.lastOp = "toggle" /\ Attached) =>
          IF Collapsed
          THEN /\ obs'.posCalls = 1
               /\ dom'.panelExpanded
               /\ dom'.panelStyle = PanelOffsets(obs'.measured.button, obs'.measured.map,
                                                 _getControlPosition(World))
               /\ \A i \in 1..Len(obs'.calls) :
                      obs'.calls[i].type = "expand" =>
                          /\ obs'.calls[i].seen.expanded
                          /\ obs'.calls[i].seen.style = dom'.panelStyle
          ELSE /\ obs'.posCalls = 0
               /\ dom'.panelStyle = dom.panelStyle
      ]_vars

\* a toggle() into Expanded has called the 'expand' handler of a control that was
\* moved to the bottom-left corner since its panel was last positioned: the handler
\* found the panel expanded and at the new corner's offsets
C16_Witness ==
    /\ obs.lastOp = "toggle" /\ Attached /\ ~Collapsed
    /\ dom.parent = "bottom-left" /\ obs.stale
    /\ Len(obs.calls) = 1 /\ obs.calls[1].type = "expand" /\ obs.calls[1].handler = "h1"
    /\ obs.calls[1].seen.expanded
    /\ obs.calls[1].seen.style["bottom"].set /\ obs.calls[1].seen.style["left"].set

\* the offsets of the claim, from the toggle box, the container box and the corner
C17_Offsets(toggleBox, containerBox, corner) ==
    LET top == (toggleBox.top - containerBox.top) + toggleBox.height + 5
        bottom == (containerBox.bottom - toggleBox.bottom) + toggleBox.height + 5
        left == toggleBox.left - containerBox.left
        right == containerBox.right - toggleBox.right
    IN  [vertical |-> IF corner \in {"top-left", "top-right"} THEN <<"top", top>>
                      ELSE <<"bottom", bottom>>,
         horizontal |-> IF corner \in {"top-left", "bottom-left"} THEN <<"left", left>>
                        ELSE <<"right", right>>]

\* C17: for every toggle box and container box, a recompute sets top (or bottom) to
\* the toggle's distance from the container's top (bottom) edge plus the toggle's
\* height plus 5, and left (or right) to the toggle's distance from the container's
\* left (right) edge; for top-right the panel's right edge is then the toggle's right
\* edge and its top edge is 5 below the toggle's bottom edge.
C17_OffsetsPerCorner ==
    obs.posCalls > 0 =>
        LET toggleBox == obs.measured.button
            containerBox == obs.measured.map
            expected == C17_Offsets(toggleBox, containerBox, dom.parent)
            style == dom.panelStyle
        IN  /\ style[expected.vertical[1]] = [set |-> TRUE, px |-> expected.vertical[2]]
            /\ style[expected.horizontal[1]] = [set |-> TRUE, px |-> expected.horizontal[2]]
            /\ dom.parent = "top-right" =>
                   /\ containerBox.right - style["right"].px = toggleBox.right
                   /\ containerBox.top + style["top"].px = toggleBox.bottom + 5

\* a recompute for the top-right corner has measured a toggle box that touches no
\* edge of the container box
C17_Witness ==
    /\ obs.lastOp = "animationFrame" /\ obs.posCalls = 1 /\ dom.parent = "top-right"
    /\ obs.measured.button = Rect(0, 0, 1, 2)
    /\ obs.measured.map = Rect(0 - 1, 0 - 1, 2, 2)
    /\ dom.panelStyle["top"] = [set |-> TRUE, px |-> 8]
    /\ dom.panelStyle["right"] = [set |-> TRUE, px |-> 0]

\* the two sides a corner anchors the panel at
C18_SidesOf(corner) ==
    {IF corner \in {"top-left", "top-right"} THEN "top" ELSE "bottom",
     IF corner \in {"top-left", "bottom-left"} THEN "left" ELSE "right"}

\* C18: after every recompute, also when the container has changed corner since the
\* panel was last positioned, the offsets set on the panel are exactly two, one of
\* top/bottom and one of left/right, and they are the two of the corner detected now.
C18_TwoOffsetsOfCorner ==
    obs.posCalls > 0 =>
        LET offsets == {s \in Sides : dom.panelStyle[s].set}
        IN  /\ Cardinality(offsets \cap {"top", "bottom"}) = 1
            /\ Cardinality(offsets \cap {"left", "right"}) = 1
            /\ offsets = C18_SidesOf(_getControlPosition(World))

\* a resize has repositioned, at the bottom-left corner, a panel that carried the
\* offsets of another corner
C18_Witness ==
    /\ obs.lastOp = "windowResize" /\ obs.posCalls = 1 /\ obs.stale
    /\ Attached /\ dom.parent = "bottom-left"
    /\ dom.panelStyle["bottom"].set /\ dom.panelStyle["left"].set

\* box inner lies inside box outer
C19_Inside(inner, outer) ==
    /\ outer.top <= inner.top /\ inner.bottom <= outer.bottom
    /\ outer.left <= inner.left /\ inner.right <= outer.right

\* the horizontal extent of a panel of the given width, and the vertical position of
\* its anchored edge, in the coordinates of the measured boxes
C19_PanelEdges(style, containerBox, width) ==
    [left |-> IF style["left"].set THEN containerBox.left + style["left"].px
              ELSE containerBox.right - style["right"].px - width,
     right |-> IF style["left"].set THEN containerBox.left + style["left"].px + width
               ELSE containerBox.right - style["right"].px,
     anchor |-> IF style["top"].set THEN containerBox.top + style["top"].px
                ELSE containerBox.bottom - style["bottom"].px]

\* C19: after a recompute that measured the toggle box inside the container box, the
\* panel, as wide as options.panelWidth, lies between the container's left and right
\* edges, and its anchored edge between the container's top and bottom edges.
C19_PanelInsideContainer ==
    (obs.posCalls > 0 /\ C19_Inside(obs.measured.button, obs.measured.map)) =>
        LET containerBox == obs.measured.map
            panel == C19_PanelEdges(dom.panelStyle, containerBox, dom.panelWidth)
        IN  /\ containerBox.left <= panel.left /\ panel.right <= containerBox.right
            /\ containerBox.top <= panel.anchor /\ panel.anchor <= containerBox.bottom

\* C20: the offsets a recompute writes are those of the corner named by the marker
\* class of the container's parent, and those of top-right when the container has no
\* parent or the parent carries no marker class, whatever the position option is.
C20_CornerFromParent ==
    obs.posCalls > 0 =>
        LET corner == IF dom.parent \in Corners THEN dom.parent ELSE "top-right"
        IN  /\ _getControlPosition(World) = corner
            /\ dom.panelStyle = PanelOffsets(obs.measured.button, obs.measured.map, corner)

\* a control built with position 'bottom-left' and placed in the top-left stack has
\* been positioned at top and left
C20_Witness ==
    /\ obs.posCalls = 1 /\ Attached
    /\ ctl._options.position = "bottom-left" /\ dom.parent = "top-left"
    /\ dom.panelStyle["top"].set /\ dom.panelStyle["left"].set
    /\ ~dom.panelStyle["bottom"].set /\ ~dom.panelStyle["right"].set

\* the operations that are not transitions, and the ones that go through toggle()
C21_Observers ==
    {"on", "off", "getState", "getMap", "getContainer", "onAdd", "onRemove",
     "windowResize", "mapResize", "animationFrame"}
C21_Togglers ==
    {"toggle", "expand", "collapse", "toggleButton", "closeButton", "documentClick"}

\* C21: on, off, the accessors, onAdd, onRemove, the resize notifications and the
\* deferred recompute leave the state (collapsed, panelWidth, data) as it was;
\* toggle, expand, collapse and the clicks that call them leave panelWidth and data
\* as they were; so only these and setState ever change the state.
C21_StateFrame ==
    [][/\ obs'.lastOp \in C21_Observers => State' = State
       /\ obs'.lastOp \in C21_Togglers =>
              State'.panelWidth = State.panelWidth /\ State'.data = State.data
       /\ State' # State => obs'.lastOp \in C21_Togglers \cup {"setState"}
      ]_vars

\* onRemove has detached a control (the frame its onAdd requested is still pending)
\* and left a state that differs from the default in every field
C21_Witness ==
    /\ obs.lastOp = "onRemove" /\ C11_Detached /\ dom.raf = 1
    /\ ~Collapsed /\ State.panelWidth = 400 /\ State.data["a"] = 1

\* C22: no control the component created is ever on a map besides the one it refers
\* to; while the component is mounted with a map its control is on that map, with
\* one panel and one container; while it is unmounted or has no map, nothing of a
\* control is left: no element, no map child, no listener.
C22_ComponentManagesLifecycle ==
    LET component == client.component
    IN  /\ component.stray = 0
        /\ (component.mounted /\ component.map # "none") =>
               /\ component.controlRef /\ mapHasControl(World, component.map)
               /\ Attached /\ dom.mapChildren = 1 /\ dom.stackChildren = 1
               /\ dom.documentClick = 1 /\ dom.windowResize = 1 /\ dom.mapResize = 1
        /\ (~component.mounted \/ component.map = "none") =>
               /\ ~component.controlRef /\ component.on = "none"
               /\ C11_Detached /\ C12_Released
               /\ dom.documentClick = 0 /\ dom.windowResize = 0 /\ dom.mapResize = 0

\* the component has been unmounted after its Expanded control was on a map (the
\* frame of its onAdd is still pending)
C22_Witness ==
    /\ obs.lastOp = "unmount" /\ ~client.component.mounted
    /\ ~Collapsed /\ dom.raf = 1 /\ C11_Detached

C24_ClampBounds ==
    LET v == client.util.value
        lo == client.util.min
        hi == client.util.max
        r == client.util.result
    IN  (client.util.used /\ lo <= hi) =>
            /\ lo <= r /\ r <= hi
            /\ (lo <= v /\ v <= hi) => r = v
            /\ v < lo => r = lo
            /\ v > hi => r = hi

\* clamp has returned the lower bound for a value below a range of several values
C24_Witness ==
    /\ obs.lastOp = "clamp" /\ client.util.used
    /\ client.util.value < client.util.min /\ client.util.min < client.util.max
    /\ client.util.result = client.util.min

\* C25: on an attached control a document click outside the container and the panel
\* collapses an Expanded control, emitting 'collapse' then 'statechange', and does
\* nothing on a Collapsed one; a click inside the container or the panel does nothing
\* through the document's listener, so that a click on the toggle button leaves what
\* toggle() made and one on the close button what collapse() made; on a detached
\* control a document click does nothing.
C25_OutsideClickCollapses ==
    [][/\ \A target \in {"outside", "container", "panel"}, layout \in Layouts :
              DocumentClick(target, layout) =>
                  IF Attached /\ ~Collapsed /\ target = "outside"
                  THEN /\ State'.collapsed /\ ~dom'.panelExpanded
                       /\ obs'.emitted = <<"collapse", "statechange">>
                       /\ State'.panelWidth = State.panelWidth /\ State'.data = State.data
                  ELSE C3_NothingDone
       /\ obs'.lastOp = "toggleButton" =>
              /\ State'.collapsed = ~Collapsed
              /\ dom'.panelExpanded = Collapsed
              /\ obs'.emitted = IF Collapsed THEN <<"expand", "statechange">>
                                ELSE <<"collapse", "statechange">>
       /\ obs'.lastOp = "closeButton" =>
              /\ State'.collapsed
              /\ obs'.emitted = IF Collapsed THEN <<>> ELSE <<"collapse", "statechange">>
      ]_vars

\* a click outside has collapsed an attached control
C25_Witness ==
    /\ obs.lastOp = "documentClick" /\ Attached
    /\ Collapsed /\ ~dom.panelExpanded
    /\ obs.emitted = <<"collapse", "statechange">>

\* C27: a subscriber to 'expand' and 'collapse' of a control that stays attached is
\* never called with the same one of the two twice running.
C27_ExpandCollapseAlternate ==
    ~client.watch.repeated

\* C28: a window-resize or map-resize notification or the deferred initial recompute
\* that runs while the state is Collapsed leaves the panel's offsets as they are.
C28_RecomputeOnlyExpanded ==
    [][(obs'.lastOp \in {"windowResize", "mapResize", "animationFrame"} /\ Collapsed) =>
          dom'.panelStyle = dom.panelStyle
      ]_vars

\* C26: when the collapsed prop changes to a defined value while the component has a
\* control, the control's state then equals the prop: if it differed, the control
\* was collapsed or expanded, emitting the pair of events; if it matched, nothing
\* changed and nothing was emitted.
C26_PropSync ==
    [][(obs'.lastOp = "changeCollapsed" /\ client.component.controlRef
          /\ client'.component.collapsed.given) =>
          LET value == client'.component.collapsed.value
          IN  /\ State'.collapsed = value
              /\ IF Collapsed = value
                 THEN /\ obs'.emitted = <<>> /\ obs'.calls = <<>>
                      /\ ctl' = ctl /\ heap' = heap /\ dom' = dom
                 ELSE /\ obs'.emitted = IF value THEN <<"collapse", "statechange">>
                                        ELSE <<"expand", "statechange">>
                      /\ dom'.panelExpanded = ~value
      ]_vars

\* the prop has changed to collapsed while the user had expanded the control: the
\* control was collapsed and onStateChange was called
C26_Witness ==
    /\ obs.lastOp = "changeCollapsed" /\ client.component.controlRef
    /\ client.component.collapsed = [given |-> TRUE, value |-> TRUE]
    /\ Collapsed /\ ~dom.panelExpanded
    /\ obs.emitted = <<"collapse", "statechange">>
    /\ Len(obs.calls) = 1 /\ obs.calls[1].handler = "onStateChange"

\* C29: onRemove leaves no handler registered; every other operation than on() and
\* off() leaves the registered handlers as they are, onAdd included; on() registers
\* at most the one pair it names; and an operation calls only handlers that were
\* registered for the event when it began. So a handler registered before a detach
\* is not called after it, attached again or not, until on() registers it again.
C29_DetachUnregistersAll ==
    [][/\ obs'.lastOp = "onRemove" => ctl'._eventHandlers = NoHandlers
       /\ obs'.lastOp \notin {"on", "off", "onRemove"} =>
              ctl'._eventHandlers = ctl._eventHandlers
       /\ obs'.lastOp = "on" =>
              Cardinality({p \in Events \X Handlers :
                              SeqHas(ctl'._eventHandlers.sets[p[1]], p[2])
                                /\ ~Registered(p[1], p[2])}) <= 1
       /\ \A i \in 1..Len(obs'.calls) :
              Registered(obs'.calls[i].type, obs'.calls[i].handler)
      ]_vars

\* onRemove has run on an attached control that had handlers registered, and none is
\* left
C29_Witness ==
    /\ obs.lastOp = "onRemove" /\ obs.had
    /\ ctl._eventHandlers = NoHandlers
    /\ C11_Detached

====
